---- MODULE Spec2Model ----
(***************************************************************************)
(* Boxing Coach backend: the Express server of src/src/index.ts, the auth  *)
(* utilities of src/src/utils/auth.ts and the auth / training routes.      *)
(*                                                                         *)
(* Library behaviour the source relies on and that the model writes out:   *)
(*  - jsonwebtoken: sign() stamps iat = now (seconds) and, for             *)
(*    expiresIn '7d', exp = iat + 604800; verify() throws on a malformed   *)
(*    token, on a signature that is not the HMAC of the token's own        *)
(*    header.payload under the given secret, and when now >= exp.          *)
(*    The HMAC is modelled as collision free: a signature is the pair of   *)
(*    the key and the signed content.                                      *)
(*  - dotenv.config() copies the entries of .env into process.env and      *)
(*    never overrides an entry that is already set.                        *)
(*  - module loading: the import statements of a module are evaluated, in  *)
(*    order, before any other statement of that module.                    *)
(*  - numbers are JavaScript numbers; the model keeps them as exact        *)
(*    fractions <<n, d>>, NaN as <<0, 0>>, null as <<>> and an omitted     *)
(*    request field as UNDEF.                                              *)
(*  - bcryptjs: hash and compare read the first 72 bytes of the password.  *)
(*  - the clock does not run backwards.                                    *)
(***************************************************************************)
EXTENDS Integers, Sequences, FiniteSets, TLC

VARIABLES
    procEnv,            \* the environment the process was started with
    dotEnvFile,         \* the entries of the .env file
    env,                \* process.env
    boot,               \* position of the start-up script of index.ts
    JWT_SECRET,         \* the constant captured by utils/auth.ts
    now,                \* wall clock, in seconds
    ticks,              \* number of clock steps taken (bounds the model)
    issued,             \* the tokens handed out to clients so far
    users,              \* table users
    user_stats,         \* table user_stats
    training_sessions,  \* table training_sessions
    req,                \* the requests whose async handler is in flight
    last,               \* the last request completed, with its response
    calc,               \* inputs and result of the last calculateAverage call
    signedUpWith,       \* history: the password each registered email signed up with
    counted             \* history: the training records whose stats update was applied

vars == <<procEnv, dotEnvFile, env, boot, JWT_SECRET, now, ticks, issued,
          users, user_stats, training_sessions, req, last, calc, signedUpWith, counted>>

bootVars == <<procEnv, dotEnvFile, env, boot, JWT_SECRET>>
dbVars == <<users, user_stats, training_sessions, signedUpWith, counted>>

-----------------------------------------------------------------------------
(* Bounds of the model *)

MaxTicks == 3
MaxTokens == 2
\* handlers in flight at once
MaxInFlight == 2
\* rows of training_sessions
MaxRecords == 2
\* calls of calculateAverage in a row, and the count the first one starts from
MaxFolds == 3
MaxCount == 2

-----------------------------------------------------------------------------
(* JavaScript values *)

\* null or undefined (the code only ever tests them with !x, x || 0, x && y)
NULL == <<>>
NaN == <<0, 0>>

Abs(x) == IF x < 0 THEN -x ELSE x

RECURSIVE Gcd(_, _)
Gcd(a, b) == IF b = 0 THEN a ELSE Gcd(b, a % b)

\* the fraction n/d in lowest terms, d > 0
Frac(n, d) ==
    LET g == Gcd(Abs(n), Abs(d))
        s == IF d < 0 THEN -1 ELSE 1
    IN  IF d = 0 THEN NaN ELSE <<(s * n) \div g, (s * d) \div g>>

Num(n) == <<n, 1>>

IsNaN(x) == x = NaN
IsNull(x) == x = NULL

\* ToNumber: null is 0, undefined is NaN. undefined only reaches arithmetic
\* as an omitted request field, which the model writes UNDEF.
UNDEF == <<0, 0, 0>>
ToNumber(x) == IF x = NULL THEN Num(0) ELSE IF x = UNDEF THEN NaN ELSE x

JsAdd(a, b) ==
    LET x == ToNumber(a)
        y == ToNumber(b)
    IN  IF IsNaN(x) \/ IsNaN(y) THEN NaN
        ELSE Frac(x[1] * y[2] + y[1] * x[2], x[2] * y[2])

JsSub(a, b) ==
    LET x == ToNumber(a)
        y == ToNumber(b)
    IN  IF IsNaN(x) \/ IsNaN(y) THEN NaN
        ELSE Frac(x[1] * y[2] - y[1] * x[2], x[2] * y[2])

JsMul(a, b) ==
    LET x == ToNumber(a)
        y == ToNumber(b)
    IN  IF IsNaN(x) \/ IsNaN(y) THEN NaN
        ELSE Frac(x[1] * y[1], x[2] * y[2])

\* x / 0 is Infinity or NaN in JavaScript; the code only divides by
\* (total_sessions || 0) + 1, and the model never stores a count below 0
JsDiv(a, b) ==
    LET x == ToNumber(a)
        y == ToNumber(b)
    IN  IF IsNaN(x) \/ IsNaN(y) \/ y[1] = 0 THEN NaN
        ELSE Frac(x[1] * y[2], x[2] * y[1])

\* a > b: false whenever either side is NaN
JsGt(a, b) ==
    LET x == ToNumber(a)
        y == ToNumber(b)
    IN  IF IsNaN(x) \/ IsNaN(y) THEN FALSE
        ELSE x[1] * y[2] > y[1] * x[2]

\* !x for a number or null / undefined
Falsy(x) == x = NULL \/ x = UNDEF \/ x = NaN \/ x = Num(0)

\* x || 0
OrZero(x) == IF Falsy(x) THEN Num(0) ELSE x

\* JSON.stringify of a request body sent to the database: NaN becomes null,
\* an undefined field is dropped (the column keeps its value on update)
ToJson(x) == IF x = NaN THEN NULL ELSE x

-----------------------------------------------------------------------------
(* utils/auth.ts: tokens *)

DefaultSecret == "your-secret-key"
Secrets == {"S1", "S2"}

\* expiresIn: '7d', in seconds
ExpiresIn == 604800

Principals == { [id |-> "u1", email |-> "a@b.com"],
                [id |-> "u2", email |-> "c@d.com"] }
Ids == {p.id : p \in Principals}
Emails == {p.email : p \in Principals}

\* HMAC of the encoded header.payload under key
Sign(key, id, email, iat, exp) == <<key, id, email, iat, exp>>

BadSig == <<"", "", "", 0, 0>>

NoToken == [kind |-> "none", id |-> "", email |-> "", iat |-> 0, exp |-> 0, sig |-> BadSig]
Garbage == [kind |-> "garbage", id |-> "", email |-> "", iat |-> 0, exp |-> 0, sig |-> BadSig]

\* faulty variant: expiresIn given as '7h'
JwtSign_SevenHours(id, email, secret, t) ==
    [kind |-> "jwt", id |-> id, email |-> email, iat |-> t, exp |-> t + 7 * 3600,
     sig |-> Sign(secret, id, email, t, t + 7 * 3600)]

\* jwt.sign({id, email}, secret, {expiresIn: '7d'}) at time t
JwtSign(id, email, secret, t) ==
    [kind |-> "jwt", id |-> id, email |-> email, iat |-> t, exp |-> t + ExpiresIn,
     sig |-> Sign(secret, id, email, t, t + ExpiresIn)]

\* jwt.verify(token, secret) throws
JwtVerifyThrows(token, secret, t) ==
    \/ token.kind # "jwt"
    \/ token.sig # Sign(secret, token.id, token.email, token.iat, token.exp)
    \/ t >= token.exp

NoClaims == [ok |-> FALSE, id |-> "", email |-> "", iat |-> 0, exp |-> 0]

\* faulty variant: the payload fields filled from the wrong arguments
generateToken_Swapped(userId, email) ==
    [kind |-> "jwt", id |-> email, email |-> userId, iat |-> now, exp |-> now + ExpiresIn,
     sig |-> Sign(JWT_SECRET, email, userId, now, now + ExpiresIn)]

generateToken(userId, email) == JwtSign(userId, email, JWT_SECRET, now)

\* faulty variant: jwt.decode in place of jwt.verify, the signature is not checked
verifyToken_DecodeOnly(token) ==
    IF token.kind # "jwt" \/ now >= token.exp
    THEN NoClaims
    ELSE [ok |-> TRUE, id |-> token.id, email |-> token.email,
          iat |-> token.iat, exp |-> token.exp]

verifyToken(token) ==
    IF JwtVerifyThrows(token, JWT_SECRET, now)
    THEN NoClaims
    ELSE [ok |-> TRUE, id |-> token.id, email |-> token.email,
          iat |-> token.iat, exp |-> token.exp]

-----------------------------------------------------------------------------
(* utils/auth.ts: the guard *)

\* An authorization header is the list of its words (the text split at
\* single spaces). A word is a scheme name or the text of a token.
Word(scheme, tok) == [scheme |-> scheme, tok |-> tok]
NoHeader == [present |-> FALSE, words |-> <<>>]
Header(words) == [present |-> TRUE, words |-> words]

\* the token a word reads as: a scheme name is no JWT
AsToken(w) == IF w.scheme = "" THEN w.tok ELSE Garbage

\* authHeader && authHeader.split(' ')[1]
HeaderToken(h) ==
    IF ~h.present THEN NoToken
    ELSE IF Len(h.words) >= 2 THEN AsToken(h.words[2]) ELSE NoToken

\* faulty variant: the 403 branch answers but does not return
authenticateToken_NoReturn(h) ==
    LET token == HeaderToken(h)
        decoded == verifyToken(token)
    IN  IF token.kind = "none"
        THEN [status |-> 401, error |-> "Access token required", next |-> 0, user |-> NoClaims]
        ELSE IF ~decoded.ok
        THEN [status |-> 403, error |-> "Invalid or expired token", next |-> 1, user |-> decoded]
        ELSE [status |-> 0, error |-> "", next |-> 1, user |-> decoded]

\* authenticateToken(req, res, next): the response it sends, whether it
\* called next, and req.user
authenticateToken(h) ==
    LET token == HeaderToken(h)
        decoded == verifyToken(token)
    IN  IF token.kind = "none"
        THEN [status |-> 401, error |-> "Access token required", next |-> 0, user |-> NoClaims]
        ELSE IF ~decoded.ok
        THEN [status |-> 403, error |-> "Invalid or expired token", next |-> 0, user |-> NoClaims]
        ELSE [status |-> 0, error |-> "", next |-> 1, user |-> decoded]

-----------------------------------------------------------------------------
(* index.ts: start-up *)

EnvNames == {"SUPABASE_URL", "SUPABASE_SERVICE_ROLE_KEY", "JWT_SECRET"}

\* An environment gives each name its text; "" stands for a name that is
\* not set (the code reads every entry through !x or x || default).
Environments ==
    { [n \in EnvNames |-> IF n = "JWT_SECRET" THEN s ELSE IF n = "SUPABASE_URL" THEN u ELSE k] :
        s \in Secrets \cup {""}, u \in {"", "https://x.supabase.co"}, k \in {"", "service-key"} }

\* the secret the deployment configures: the process environment wins over .env
ConfiguredSecret ==
    IF procEnv["JWT_SECRET"] # "" THEN procEnv["JWT_SECRET"] ELSE dotEnvFile["JWT_SECRET"]

\* const JWT_SECRET = process.env.JWT_SECRET || 'your-secret-key'
CapturedSecret(e) == IF e["JWT_SECRET"] = "" THEN DefaultSecret ELSE e["JWT_SECRET"]

\* the import statements of index.ts: routes/auth, routes/users and
\* routes/training are evaluated, and with them utils/auth. Each route module
\* calls createClient(process.env.SUPABASE_URL || '', ...) at load; whether
\* the client library throws on an empty URL or key is not in the source, so
\* both outcomes are allowed.
LoadModules ==
    /\ boot = "load"
    /\ JWT_SECRET' = CapturedSecret(env)
    /\ \/ boot' = "config"
       \/ /\ env["SUPABASE_URL"] = "" \/ env["SUPABASE_SERVICE_ROLE_KEY"] = ""
          /\ boot' = "crashed"
    /\ UNCHANGED <<procEnv, dotEnvFile, env, now, ticks, issued, dbVars, req, last, calc>>

\* dotenv.config()
DotenvConfig ==
    /\ boot = "config"
    /\ env' = [n \in EnvNames |-> IF env[n] # "" THEN env[n] ELSE dotEnvFile[n]]
    /\ boot' = "check"
    /\ UNCHANGED <<procEnv, dotEnvFile, JWT_SECRET, now, ticks, issued, dbVars, req, last, calc>>

\* requiredEnvVars.filter(varName => !process.env[varName])
missingEnvVars == {n \in EnvNames : env[n] = ""}

\* the check of the required variables; then app.listen
CheckEnv ==
    /\ boot = "check"
    /\ boot' = IF missingEnvVars # {} THEN "exited" ELSE "serving"
    /\ UNCHANGED <<procEnv, dotEnvFile, env, JWT_SECRET, now, ticks, issued, dbVars, req, last, calc>>

-----------------------------------------------------------------------------
(* Tokens in the hands of clients *)

Idle == [op |-> "none"]

ReqIds == 1..MaxInFlight
FreeReq == [pc |-> "free"]

AllSecrets == Secrets \cup {DefaultSecret}

\* tokens signed by a service that holds another secret
OtherSecret == IF JWT_SECRET = "S1" THEN "S2" ELSE "S1"
Foreign == { JwtSign(p.id, p.email, OtherSecret, now) : p \in Principals }

\* an issued token with part of its text changed
Tampered(t) ==
    { [t EXCEPT !.id = i] : i \in Ids \ {t.id} }
      \cup { [t EXCEPT !.email = e] : e \in Emails \ {t.email} }
      \cup { [t EXCEPT !.exp = t.exp + ExpiresIn] }
      \cup { [t EXCEPT !.iat = t.iat + 1] }
      \cup { [t EXCEPT !.sig = BadSig] }
      \cup { [t EXCEPT !.sig = Sign(OtherSecret, t.id, t.email, t.iat, t.exp)] }

Presentable == issued \cup UNION {Tampered(t) : t \in issued} \cup Foreign \cup {Garbage}

Headers ==
    {NoHeader, Header(<<Word("Bearer", NoToken)>>)}
      \cup { Header(<<Word("Bearer", NoToken), Word("", t)>>) : t \in issued \cup Foreign \cup {Garbage} }
      \cup { Header(<<Word("Basic", NoToken), Word("", t)>>) : t \in issued }
      \cup { Header(<<Word("", t)>>) : t \in issued }

\* signup and login hand generateToken(user.id, user.email) to the client
IssueToken(p) ==
    /\ boot = "serving"
    /\ Cardinality(issued) < MaxTokens
    /\ LET t == generateToken(p.id, p.email)
       IN  /\ issued' = issued \cup {t}
           /\ last' = [op |-> "issue", id |-> p.id, email |-> p.email, tok |-> t, at |-> now]
    /\ UNCHANGED <<bootVars, now, ticks, dbVars, req, calc>>

\* verifyToken on a token a client presents
VerifyPresented(t) ==
    /\ boot = "serving"
    /\ last' = [op |-> "verify", tok |-> t, claims |-> verifyToken(t), at |-> now]
    /\ UNCHANGED <<bootVars, now, ticks, issued, dbVars, req, calc>>

\* a request to a protected route whose handler does nothing but answer
GuardedRequest(h) ==
    /\ boot = "serving"
    /\ last' = [op |-> "guard", hdr |-> h, res |-> authenticateToken(h), at |-> now]
    /\ UNCHANGED <<bootVars, now, ticks, issued, dbVars, req, calc>>

\* time passes; a response is observed at the instant it is sent, so the
\* record of the last one is dropped
Tick(d) ==
    /\ boot = "serving"
    /\ ticks < MaxTicks
    /\ now' = now + d
    /\ ticks' = ticks + 1
    /\ last' = Idle
    /\ UNCHANGED <<bootVars, issued, dbVars, req, calc>>

TickSteps == {1, ExpiresIn - 1}

EmptyEnv == [n \in EnvNames |-> ""]
NoCalc == [op |-> "none"]

InitRest ==
    /\ now = 0
    /\ ticks = 0
    /\ issued = {}
    /\ users = {}
    /\ user_stats = {}
    /\ training_sessions = {}
    /\ req = [r \in ReqIds |-> FreeReq]
    /\ last = Idle
    /\ calc = NoCalc
    /\ signedUpWith = <<>>
    /\ counted = {}

\* the process starts
InitBoot ==
    /\ procEnv \in Environments
    /\ dotEnvFile \in Environments
    /\ env = procEnv
    /\ boot = "load"
    /\ JWT_SECRET = ""
    /\ InitRest

NextBoot ==
    \/ LoadModules
    \/ DotenvConfig
    \/ CheckEnv
    \/ \E p \in Principals : IssueToken(p)
    \/ \E t \in issued : VerifyPresented(t)

SpecBoot == InitBoot /\ [][NextBoot]_vars

\* a server that passed start-up, holding whichever secret it captured
InitAuth ==
    /\ procEnv = EmptyEnv
    /\ dotEnvFile = EmptyEnv
    /\ env = EmptyEnv
    /\ boot = "serving"
    /\ JWT_SECRET \in {"S1", DefaultSecret}
    /\ InitRest

NextAuth ==
    \/ \E p \in Principals : IssueToken(p)
    \/ \E t \in Presentable : VerifyPresented(t)
    \/ \E h \in Headers : GuardedRequest(h)
    \/ \E d \in TickSteps : Tick(d)

SpecAuth == InitAuth /\ [][NextAuth]_vars

-----------------------------------------------------------------------------
(* utils/auth.ts: passwords *)

\* bcrypt keys its cipher with the first 72 bytes of the password and ignores
\* the rest. A password is kept as the text of its first 72 bytes (head), the
\* text after them (rest) and its length.
BcryptMaxLen == 72
Pw(head, rest, len) == [head |-> head, rest |-> rest, len |-> len]
NoPassword == Pw("", "", 0)
LongHead == "seventy-two-bytes"
Passwords ==
    { NoPassword, Pw("abc", "", 3), Pw("secret123", "", 9),
      Pw(LongHead, "x", BcryptMaxLen + 1), Pw(LongHead, "y", BcryptMaxLen + 1) }

Salts == {"salt1", "salt2"}

Bcrypt(salt, password) == <<salt, password.head>>

\* bcrypt.hash(password, salt), salt = bcrypt.genSalt(10)
hashPassword(password, salt) == [salt |-> salt, digest |-> Bcrypt(salt, password)]

\* bcrypt.compare(password, hash)
comparePassword(password, hash) == hash.digest = Bcrypt(hash.salt, password)

-----------------------------------------------------------------------------
(* Storage and unexpected failures *)

\* A storage or hashing call either works or fails with an error whose
\* message carries internal detail.
Faults == {"ok", "detail"}
InternalDetail == "connect ECONNREFUSED db.internal:5432"
ErrorMessage(f) == IF f = "detail" THEN InternalDetail ELSE ""

\* error.message || fallback
MessageOr(f, fallback) == IF ErrorMessage(f) # "" THEN ErrorMessage(f) ELSE fallback

\* ids the database hands out, in order
UserIdSeq == <<"u1", "u2", "u3", "u4">>
NewUserId == UserIdSeq[Cardinality(users) + 1]

\* Columns of user_stats that the insert of signup does not name take the
\* default of the schema, which is not part of the source: NULL or 0.
ColumnDefaults == {NULL, Num(0)}
NewStatsRow(uid, d) ==
    [user_id |-> uid, total_sessions |-> d, total_training_time |-> d,
     average_score |-> d, best_score |-> d]

-----------------------------------------------------------------------------
(* routes/auth.ts *)

SignupEmails == {"", "a@b.com", "c@d.com"}

Done(op, status, error, token) ==
    [pc |-> "done", op |-> op, status |-> status, error |-> error, token |-> token]

\* faulty variant: the users table without its unique index on email
EmailTaken_NoConstraint(email) == FALSE

\* users.email is unique: an insert of an email that a row already holds is
\* refused with error code 23505
EmailTaken(email) == \E u \in users : u.email = email

\* POST /auth/signup, up to and including the insert into users. The row's
\* full_name is not modelled. The answer is kept with whether the request
\* passed the handler's validation rules and whether a call failed.
SignupInsertUser(r, email, password, salt, hashFault, dbFault) ==
    /\ boot = "serving"
    /\ req[r].pc = "free"
    /\ LET row == [id |-> NewUserId, email |-> email,
                   password_hash |-> hashPassword(password, salt)]
           answer(status, error) ==
               /\ req' = [req EXCEPT ![r] = Done("signup", status, error, NoToken)
                                              @@ [email |-> email,
                                                  wellFormed |-> email # "" /\ password.len >= 6,
                                                  failed |-> hashFault # "ok" \/ dbFault # "ok"]]
               /\ UNCHANGED <<users, signedUpWith>>
       IN  IF email = "" \/ password.len = 0
           THEN answer(400, "Email and password are required")
           ELSE IF password.len < 6
           THEN answer(400, "Password must be at least 6 characters")
           ELSE IF hashFault # "ok"
           THEN answer(500, MessageOr(hashFault, "Signup failed"))
           ELSE IF EmailTaken(email)
           THEN answer(409, "Email already exists")
           ELSE IF dbFault # "ok"
           THEN answer(500, MessageOr(dbFault, "Signup failed"))
           ELSE /\ users' = users \cup {row}
                /\ signedUpWith' = (email :> password) @@ signedUpWith
                /\ req' = [req EXCEPT ![r] = [pc |-> "stats", op |-> "signup", user |-> row]]
    /\ UNCHANGED <<bootVars, now, ticks, issued, user_stats, training_sessions, last, calc, counted>>

\* POST /auth/signup, from the insert into user_stats (whose error is not
\* looked at) to the 201 response
SignupInsertStats(r, dbFault, d) ==
    /\ boot = "serving"
    /\ req[r].pc = "stats"
    /\ LET user == req[r].user
           token == generateToken(user.id, user.email)
       IN  /\ user_stats' = IF dbFault = "ok"
                            THEN user_stats \cup {NewStatsRow(user.id, d)}
                            ELSE user_stats
           /\ issued' = issued \cup {token}
           /\ req' = [req EXCEPT ![r] = Done("signup", 201, "", token)
                                          @@ [email |-> user.email, user_id |-> user.id]]
    /\ UNCHANGED <<bootVars, now, ticks, users, training_sessions, last, calc, signedUpWith, counted>>

\* POST /auth/login
Login(email, password, dbFault, cmpFault) ==
    /\ boot = "serving"
    /\ LET found == {u \in users : u.email = email}
           user == CHOOSE u \in found : TRUE
           answer(status, error, token) ==
               /\ last' = [op |-> "login", email |-> email, password |-> password,
                           status |-> status, error |-> error, token |-> token]
               /\ issued' = IF token.kind = "none" THEN issued ELSE issued \cup {token}
       IN  IF email = "" \/ password.len = 0
           THEN answer(400, "Email and password are required", NoToken)
           ELSE IF dbFault # "ok" \/ found = {}
           THEN answer(401, "Invalid email or password", NoToken)
           ELSE IF cmpFault # "ok"
           THEN answer(500, MessageOr(cmpFault, "Login failed"), NoToken)
           ELSE IF ~comparePassword(password, user.password_hash)
           THEN answer(401, "Invalid email or password", NoToken)
           ELSE answer(200, "", generateToken(user.id, user.email))
    /\ UNCHANGED <<bootVars, now, ticks, dbVars, req, calc>>

\* the client has its response: the handler's slot is free again
Release(r) ==
    /\ req[r].pc = "done"
    /\ req' = [req EXCEPT ![r] = FreeReq]
    /\ UNCHANGED <<bootVars, now, ticks, issued, dbVars, last, calc>>

-----------------------------------------------------------------------------
(* routes/training.ts *)

\* faulty variant: totalCount used where totalCount - 1 is meant
calculateAverage_OffByOne(currentAvg, newValue, totalCount) ==
    JsDiv(JsAdd(JsMul(currentAvg, totalCount), newValue), totalCount)

\* ((currentAvg * (totalCount - 1)) + newValue) / totalCount
calculateAverage(currentAvg, newValue, totalCount) ==
    JsDiv(JsAdd(JsMul(currentAvg, JsSub(totalCount, Num(1))), newValue), totalCount)

\* req.body of POST /training/sessions; velocity and accuracy are left out
\* by the client (the handler stores velocity || 0 and accuracy || 0)
Body(technique, durationSeconds, score) ==
    [technique |-> technique, durationSeconds |-> durationSeconds, score |-> score]

NewSessionId == Cardinality(training_sessions) + 1

\* the row of the insert into training_sessions
SessionRow(uid, body) ==
    [id |-> NewSessionId, user_id |-> uid, technique |-> body.technique,
     duration_seconds |-> body.durationSeconds, score |-> OrZero(body.score),
     velocity |-> Num(0), accuracy |-> Num(0)]

\* faulty variant: the counter written back without the increment
StatsUpdate_NoIncrement(currentStats, body) ==
    [total_sessions |-> ToJson(OrZero(currentStats.total_sessions)),
     total_training_time |->
         ToJson(JsAdd(OrZero(currentStats.total_training_time), body.durationSeconds)),
     average_score |->
         ToJson(calculateAverage(currentStats.average_score, body.score,
                                 JsAdd(OrZero(currentStats.total_sessions), Num(1)))),
     best_score |->
         ToJson(IF JsGt(body.score, OrZero(currentStats.best_score))
                THEN body.score ELSE currentStats.best_score)]

\* the object handed to .update(), as the database receives it
StatsUpdate(currentStats, body) ==
    [total_sessions |-> ToJson(JsAdd(OrZero(currentStats.total_sessions), Num(1))),
     total_training_time |->
         ToJson(JsAdd(OrZero(currentStats.total_training_time), body.durationSeconds)),
     average_score |->
         ToJson(calculateAverage(currentStats.average_score, body.score,
                                 JsAdd(OrZero(currentStats.total_sessions), Num(1)))),
     best_score |->
         ToJson(IF JsGt(body.score, OrZero(currentStats.best_score))
                THEN body.score ELSE currentStats.best_score)]

StatsOf(uid) == {s \in user_stats : s.user_id = uid}

\* faulty variant: the update computed from the row as it is when the write lands
\* (an atomic increment at the storage layer)
WriteBasis_Fresh(r) == CHOOSE s \in StatsOf(req[r].user.id) : TRUE

\* the row the update is computed from: currentStats, read one step earlier
WriteBasis(r) == req[r].currentStats

\* POST /training/sessions: the guard, the validation and the insert
PostSessionInsert(r, h, body, dbFault) ==
    /\ boot = "serving"
    /\ req[r].pc = "free"
    /\ Cardinality(training_sessions) < MaxRecords
    /\ LET g == authenticateToken(h)
           row == SessionRow(g.user.id, body)
           answer(status, error) ==
               /\ req' = [req EXCEPT ![r] = Done("post", status, error, NoToken)]
               /\ UNCHANGED training_sessions
       IN  IF g.next = 0
           THEN answer(g.status, g.error)
           ELSE IF body.technique = "" \/ body.durationSeconds = UNDEF
           THEN answer(400, "Technique and duration are required")
           ELSE IF dbFault # "ok"
           THEN answer(500, MessageOr(dbFault, "Failed to record session"))
           ELSE /\ training_sessions' = training_sessions \cup {row}
                /\ req' = [req EXCEPT ![r] = [pc |-> "read", op |-> "post", user |-> g.user,
                                              body |-> body, session |-> row]]
    /\ UNCHANGED <<bootVars, now, ticks, issued, users, user_stats, last, calc,
                   signedUpWith, counted>>

\* POST /training/sessions: the select of the principal's user_stats row; an
\* error of the select leaves currentStats null, like a missing row
PostSessionReadStats(r, dbFault) ==
    /\ boot = "serving"
    /\ req[r].pc = "read"
    /\ LET rows == StatsOf(req[r].user.id)
       IN  IF dbFault # "ok" \/ rows = {}
           THEN req' = [req EXCEPT ![r] = Done("post", 201, "", NoToken)
                                            @@ [user |-> req[r].user, body |-> req[r].body,
                                                session |-> req[r].session,
                                                found |-> FALSE, applied |-> FALSE]]
           ELSE req' = [req EXCEPT ![r] = [pc |-> "write", currentStats |-> CHOOSE s \in rows : TRUE]
                                            @@ req[r]]
    /\ UNCHANGED <<bootVars, now, ticks, issued, dbVars, last, calc>>

\* POST /training/sessions: the update of user_stats (whose error is not
\* looked at) and the 201 response
PostSessionWriteStats(r, dbFault) ==
    /\ boot = "serving"
    /\ req[r].pc = "write"
    /\ LET uid == req[r].user.id
           upd == StatsUpdate(WriteBasis(r), req[r].body)
           applied == dbFault = "ok" /\ StatsOf(uid) # {}
       IN  /\ user_stats' =
                 IF dbFault = "ok"
                 THEN { IF s.user_id = uid THEN upd @@ s ELSE s : s \in user_stats }
                 ELSE user_stats
           /\ counted' = IF applied THEN counted \cup {req[r].session.id} ELSE counted
           /\ req' = [req EXCEPT ![r] = Done("post", 201, "", NoToken)
                                          @@ [user |-> req[r].user, body |-> req[r].body,
                                              session |-> req[r].session,
                                              found |-> TRUE, applied |-> applied,
                                              currentStats |-> req[r].currentStats,
                                              update |-> upd]]
    /\ UNCHANGED <<bootVars, now, ticks, issued, users, training_sessions, last, calc, signedUpWith>>

-----------------------------------------------------------------------------
(* Claims about the guard and the tokens *)

\* the token of the last guarded request, and whether it validated then
LastToken == HeaderToken(last.hdr)
Validated(t, at) ==
    /\ t.kind = "jwt"
    /\ t.sig = Sign(JWT_SECRET, t.id, t.email, t.iat, t.exp)
    /\ at < t.exp

\* C1: a guarded request ends in exactly one of three ways: without an
\* authorization header 401 and no call of the handler; with a token that
\* verifyToken rejects 403 and no call of the handler; with a fresh issued
\* token one call of the handler, req.user carrying the id and email the
\* token was issued for. The handler never runs unless the token validated.
C1_GuardOutcomes ==
    last.op = "guard" =>
        LET r == last.res
            t == LastToken
        IN  /\ \/ r.status = 401 /\ r.next = 0
               \/ r.status = 403 /\ r.next = 0
               \/ r.status = 0 /\ r.next = 1
            /\ ~last.hdr.present => r.status = 401 /\ r.error = "Access token required"
            /\ (t.kind # "none" /\ ~Validated(t, last.at))
                  => r.status = 403 /\ r.error = "Invalid or expired token"
            /\ (t \in issued /\ last.at < t.iat + ExpiresIn)
                  => /\ r.next = 1
                     /\ \E p \in Principals :
                           /\ t = JwtSign(p.id, p.email, JWT_SECRET, t.iat)
                           /\ r.user.id = p.id
                           /\ r.user.email = p.email
            /\ r.next > 0 => Validated(t, last.at)

\* an issued token, presented after its expiry, was answered 403
C1_Witness ==
    /\ last.op = "guard"
    /\ LastToken \in issued
    /\ last.at >= LastToken.exp
    /\ last.res.status = 403

\* C2: a token issued at T is accepted at T + 7 days - 1 second and rejected
\* from T + 7 days + 1 second on; a token once rejected stays rejected.
C2_Expiry ==
    /\ [](\A t \in issued :
            /\ now = t.iat + ExpiresIn - 1 => verifyToken(t).ok
            /\ now >= t.iat + ExpiresIn + 1 => ~verifyToken(t).ok)
    /\ [][\A t \in issued : ~verifyToken(t).ok => ~(verifyToken(t).ok)']_vars

\* verifyToken answered null for an issued token one second after its window
C2_Witness ==
    /\ last.op = "verify"
    /\ last.tok \in issued
    /\ last.at = last.tok.iat + ExpiresIn + 1
    /\ ~last.claims.ok

\* C3: a server that passed the start-up check holds the configured secret,
\* never the built-in default; without a configured secret it does not serve.
C3_NeverDefaultSecret ==
    boot = "serving" =>
        /\ ConfiguredSecret # ""
        /\ JWT_SECRET = ConfiguredSecret
        /\ JWT_SECRET # DefaultSecret

\* C4: verifyToken accepts a token exactly when generateToken of this
\* service produced it and it has not expired; a token signed under another
\* secret and a token changed after issuance get null.
C4_AcceptsOnlyOwnTokens ==
    last.op = "verify" =>
        (last.claims.ok <=> (last.tok \in issued /\ last.at < last.tok.iat + ExpiresIn))

\* a token signed under another secret, or an issued token with its payload
\* changed, was presented and rejected
C4_Witness ==
    /\ last.op = "verify"
    /\ last.tok.kind = "jwt"
    /\ last.tok \notin issued
    /\ last.at < last.tok.exp
    /\ ~last.claims.ok

\* C5: verifyToken(generateToken(id, email)), evaluated at the instant of
\* issuance, returns the id and the email that were passed in.
C5_RoundTrip ==
    (last.op = "issue" /\ last.at = now) =>
        LET c == verifyToken(last.tok)
        IN  c.ok /\ c.id = last.id /\ c.email = last.email

C5_Witness ==
    /\ last.op = "issue"
    /\ last.at = now
    /\ last.id = "u2"
    /\ verifyToken(last.tok).email = "c@d.com"

\* a server that passed start-up
InitServing ==
    /\ procEnv = EmptyEnv
    /\ dotEnvFile = EmptyEnv
    /\ env = EmptyEnv
    /\ boot = "serving"
    /\ JWT_SECRET = "S1"
    /\ InitRest

NextLogin ==
    \/ \E email \in SignupEmails, password \in Passwords, hf \in Faults, df \in Faults :
          SignupInsertUser(1, email, password, "salt1", hf, df)
    \/ \E df \in Faults : SignupInsertStats(1, df, Num(0))
    \/ \E email \in SignupEmails, password \in Passwords, df \in Faults, cf \in Faults :
          Login(email, password, df, cf)
    \/ Release(1)

SpecLogin == InitServing /\ [][NextLogin]_vars

\* C10: login issues a token exactly when the email is registered and the
\* password is the one that principal signed up with; an unknown email and a
\* wrong password get the same 401 'Invalid email or password', no token.
C10_LoginIssuesIff ==
    (last.op = "login" /\ last.email # "" /\ last.password.len > 0) =>
        LET registered == \E u \in users : u.email = last.email
            right == registered /\ signedUpWith[last.email] = last.password
        IN  /\ last.token.kind # "none" <=> right
            /\ ~right => /\ last.status = 401
                         /\ last.error = "Invalid email or password"

-----------------------------------------------------------------------------
(* The training routes under load *)

TrainingEmails == {"a@b.com", "c@d.com"}
TrainingPassword == Pw("secret123", "", 9)
Scores == {UNDEF, Num(0), Num(80), Num(90)}
Durations == {UNDEF, Num(30), Num(60)}
Bodies ==
    { Body("jab", Num(30), v) : v \in Scores }
      \cup { Body("jab", d, Num(80)) : d \in Durations }
      \cup { Body("", Num(30), Num(80)) }
BearerHeaders == {NoHeader} \cup { Header(<<Word("Bearer", NoToken), Word("", t)>>) : t \in issued }

TrainingStep(r) ==
    \/ \E email \in TrainingEmails : SignupInsertUser(r, email, TrainingPassword, "salt1", "ok", "ok")
    \/ \E df \in Faults, d \in ColumnDefaults : SignupInsertStats(r, df, d)
    \/ \E h \in BearerHeaders, body \in Bodies, df \in Faults : PostSessionInsert(r, h, body, df)
    \/ \E df \in Faults : PostSessionReadStats(r, df)
    \/ \E df \in Faults : PostSessionWriteStats(r, df)
    \/ Release(r)

\* one request at a time: each handler runs to its response before the next
\* request arrives
NextSequential == TrainingStep(1)

SpecSequential == InitServing /\ [][NextSequential]_vars

\* one principal's submissions, up to MaxInFlight handlers in flight at once,
\* storage working
ConcurrentBodies == { Body("jab", d, Num(80)) : d \in {Num(30), Num(60)} }
IssuedHeaders == { Header(<<Word("Bearer", NoToken), Word("", t)>>) : t \in issued }

ConcurrentStep(r) ==
    \/ SignupInsertUser(r, "a@b.com", TrainingPassword, "salt1", "ok", "ok")
    \/ SignupInsertStats(r, "ok", Num(0))
    \/ \E h \in IssuedHeaders, body \in ConcurrentBodies : PostSessionInsert(r, h, body, "ok")
    \/ PostSessionReadStats(r, "ok")
    \/ PostSessionWriteStats(r, "ok")
    \/ Release(r)

NextTraining == \E r \in ReqIds : ConcurrentStep(r)

SpecTraining == InitServing /\ [][NextTraining]_vars

-----------------------------------------------------------------------------
(* calculateAverage on its own *)

AverageInputs == {Num(0), Num(80), Num(85), Frac(1, 2), Frac(-5, 3)}
ScoreInputs == {Num(0), Num(80), Num(90), Num(100), Frac(171, 2)}

InitAverage ==
    /\ procEnv = EmptyEnv
    /\ dotEnvFile = EmptyEnv
    /\ env = EmptyEnv
    /\ boot = "serving"
    /\ JWT_SECRET = "S1"
    /\ now = 0
    /\ ticks = 0
    /\ issued = {}
    /\ users = {}
    /\ user_stats = {}
    /\ training_sessions = {}
    /\ req = [r \in ReqIds |-> FreeReq]
    /\ last = Idle
    /\ signedUpWith = <<>>
    /\ counted = {}
    /\ \E a \in AverageInputs, n \in 0..MaxCount :
          calc = [op |-> "start", avg |-> a, n |-> n, avg0 |-> a, n0 |-> n,
                  values |-> <<>>, averages |-> <<>>]

\* average_score: calculateAverage(currentStats.average_score, score,
\*                                 (currentStats.total_sessions || 0) + 1)
\* followed by total_sessions + 1
FoldScore(v) ==
    /\ Len(calc.values) < MaxFolds
    /\ LET out == calculateAverage(calc.avg, v, JsAdd(OrZero(Num(calc.n)), Num(1)))
       IN  calc' = [op |-> "fold", avg |-> out, n |-> calc.n + 1,
                    avg0 |-> calc.avg0, n0 |-> calc.n0,
                    prevAvg |-> calc.avg, prevN |-> calc.n, v |-> v,
                    values |-> Append(calc.values, v),
                    averages |-> Append(calc.averages, out)]
    /\ UNCHANGED <<bootVars, now, ticks, issued, dbVars, req, last>>

NextAverage == \E v \in ScoreInputs : FoldScore(v)

SpecAverage == InitAverage /\ [][NextAverage]_vars

-----------------------------------------------------------------------------
(* Claims about the training statistics *)

Records(uid) == {s \in training_sessions : s.user_id = uid}
CountedRecords(uid) == {s \in Records(uid) : s.id \in counted}

RECURSIVE SumDurations(_)
SumDurations(S) ==
    IF S = {} THEN Num(0)
    ELSE LET s == CHOOSE x \in S : TRUE
         IN  JsAdd(s.duration_seconds, SumDurations(S \ {s}))

\* no handler is between its insert and its response
Quiescent == \A r \in ReqIds : req[r].pc \notin {"read", "write"}

StatsOwners == {s.user_id : s \in user_stats}

\* a submission answered 201 after its stats update was applied
AppliedPost(r) ==
    /\ req[r].pc = "done"
    /\ req[r].op = "post"
    /\ req[r].status = 201
    /\ req[r].applied

\* C6: two submissions of one principal that both computed their update from
\* the same read of user_stats both insert a record and answer 201, and the
\* row then counts fewer sessions than the principal has records.
C6_LostUpdate ==
    \A r1, r2 \in ReqIds :
        (/\ r1 # r2
         /\ AppliedPost(r1)
         /\ AppliedPost(r2)
         /\ req[r1].user.id = req[r2].user.id
         /\ req[r1].currentStats = req[r2].currentStats)
        => \A row \in StatsOf(req[r1].user.id) :
              /\ {req[r1].session, req[r2].session} \subseteq training_sessions
              /\ JsGt(Num(Cardinality(Records(row.user_id))), row.total_sessions)

\* both answered 201, two records, one session and one duration counted
C6_Witness ==
    \E r1, r2 \in ReqIds :
        /\ r1 # r2
        /\ AppliedPost(r1)
        /\ AppliedPost(r2)
        /\ req[r1].user.id = req[r2].user.id
        /\ Cardinality(Records(req[r1].user.id)) = 2
        /\ \E row \in StatsOf(req[r1].user.id) :
              /\ row.total_sessions = Num(1)
              /\ row.total_training_time \in {req[r1].body.durationSeconds,
                                              req[r2].body.durationSeconds}

C8_RunningAverage ==
    /\ calc.op = "fold" =>
          LET a == calc.prevAvg
              v == calc.v
              n == calc.prevN
          IN  calc.avg = Frac(a[1] * n * v[2] + v[1] * a[2], a[2] * v[2] * (n + 1))
    /\ (calc.op = "fold" /\ calc.avg0 = Num(0) /\ calc.n0 = 0
          /\ calc.values = <<Num(80), Num(90), Num(100)>>)
          => calc.averages = <<Num(80), Num(85), Num(90)>>

C8_Witness ==
    /\ calc.op = "fold"
    /\ calc.avg0 = Num(0)
    /\ calc.n0 = 0
    /\ calc.values = <<Num(80), Num(90), Num(100)>>
    /\ calc.avg = Num(90)

JsMax(a, b) == IF JsGt(a, b) THEN a ELSE b

\* C9: the best_score a submission writes is max(currentBest or 0, v), so it
\* is never absent after an update.
C9_BestIsMax ==
    \A r \in ReqIds :
        (/\ req[r].pc = "done"
         /\ req[r].op = "post"
         /\ req[r].status = 201
         /\ req[r].found
         /\ req[r].body.score # UNDEF)
        => /\ req[r].update.best_score
                 = JsMax(OrZero(req[r].currentStats.best_score), req[r].body.score)
           /\ req[r].update.best_score # NULL

-----------------------------------------------------------------------------
(* Signups in flight at once *)

SignupPasswords == {TrainingPassword, Pw("abc", "", 3)}

SignupStep(r) ==
    \/ \E email \in TrainingEmails, password \in SignupPasswords, hf \in Faults, df \in Faults :
          SignupInsertUser(r, email, password, "salt1", hf, df)
    \/ \E df \in Faults : SignupInsertStats(r, df, Num(0))
    \/ Release(r)

NextSignup == \E r \in ReqIds : SignupStep(r)

SpecSignup == InitServing /\ [][NextSignup]_vars

\* the email of the signup that slot r holds
SignupEmailOf(q) == IF q.pc = "stats" THEN q.user.email ELSE q.email

\* the signup of slot r got past the users insert
SignupSucceeded(q) == q.pc = "stats" \/ (q.pc = "done" /\ q.op = "signup" /\ q.status = 201)

\* C11: a signup whose email a principal already holds is answered without a
\* new users row, without a user_stats row and without a token, and with 409
\* 'Email already exists' when the request is well formed and hashing and
\* storage work; a signup gets past the users insert only with an email no
\* principal holds, so of any signups with one email, in whatever order their
\* steps interleave, at most one succeeds and emails stay unique.
C11_DuplicateSignup ==
    /\ [](\A u1, u2 \in users : (u1.email = u2.email \/ u1.id = u2.id) => u1 = u2)
    /\ [](\A r1, r2 \in ReqIds :
            (r1 # r2 /\ SignupSucceeded(req[r1]) /\ SignupSucceeded(req[r2]))
                => SignupEmailOf(req[r1]) # SignupEmailOf(req[r2]))
    /\ [][\A r \in ReqIds :
            (/\ req[r].pc = "free"
             /\ req'[r].pc # "free"
             /\ \E u \in users : u.email = SignupEmailOf(req'[r]))
            => /\ req'[r].pc = "done"
               /\ req'[r].status \in {400, 409, 500}
               /\ req'[r].token = NoToken
               /\ users' = users
               /\ user_stats' = user_stats
               /\ issued' = issued
               /\ (req'[r].wellFormed /\ ~req'[r].failed)
                  => /\ req'[r].status = 409
                     /\ req'[r].error = "Email already exists"]_vars
    /\ [][\A r \in ReqIds :
            (req[r].pc = "free" /\ req'[r].pc = "stats")
            => /\ ~\E u \in users : u.email = req'[r].user.email
               /\ users' = users \cup {req'[r].user}]_vars

\* one signup is between its users insert and its response while a second
\* one with the same email has been refused
C11_Witness ==
    /\ req[1].pc = "stats"
    /\ req[2].pc = "done"
    /\ req[2].status = 409
    /\ req[2].error = "Email already exists"
    /\ req[2].email = req[1].user.email
    /\ Cardinality(users) = 1
    /\ user_stats = {}
    /\ issued = {}

-----------------------------------------------------------------------------
(* routes/training.ts: reading the records *)

\* faulty variant: the query without .eq('user_id', req.user.id)
SessionsOf_All(uid) == training_sessions

\* .from('training_sessions').select('*').eq('user_id', req.user.id)
SessionsOf(uid) == {s \in training_sessions : s.user_id = uid}

\* .order('created_at', { ascending: false }): rows are stamped when they are
\* inserted, so the newest row is the one with the largest id
RECURSIVE NewestFirst(_)
NewestFirst(S) ==
    IF S = {} THEN <<>>
    ELSE LET m == CHOOSE x \in S : \A y \in S : y.id <= x.id
         IN  <<m>> \o NewestFirst(S \ {m})

\* .range(from, to): the rows at the positions from..to, counted from 0
Range(rows, from, to) ==
    LET upto == IF to < Len(rows) - 1 THEN to ELSE Len(rows) - 1
        n == IF upto >= from THEN upto - from + 1 ELSE 0
    IN  [i \in 1..n |-> rows[from + i]]

\* parseInt(req.query.x) || dflt, for a query parameter that is absent or
\* the decimal text of a natural number
ParseIntOr(x, dflt) == IF Falsy(x) THEN dflt ELSE x[1]

QueryNumbers == {UNDEF, Num(0), Num(1)}

\* GET /training/sessions
GetSessions(h, qLimit, qOffset, dbFault) ==
    /\ boot = "serving"
    /\ LET g == authenticateToken(h)
           limit == ParseIntOr(qLimit, 20)
           offset == ParseIntOr(qOffset, 0)
           sessions == Range(NewestFirst(SessionsOf(g.user.id)), offset, offset + limit - 1)
           answer(status, error, rows) ==
               last' = [op |-> "list", hdr |-> h, at |-> now, status |-> status,
                        error |-> error, sessions |-> rows, limit |-> limit, offset |-> offset]
       IN  IF g.next = 0
           THEN answer(g.status, g.error, <<>>)
           ELSE IF dbFault # "ok"
           THEN answer(500, MessageOr(dbFault, "Failed to fetch sessions"), <<>>)
           ELSE answer(200, "", sessions)
    /\ UNCHANGED <<bootVars, now, ticks, issued, dbVars, req, calc>>

\* the ids a client may ask for
SessionIds == 1..(MaxRecords + 1)

NoSession == [id |-> 0, user_id |-> ""]

\* GET /training/sessions/:id; .single() gives an error unless exactly one
\* row matches, and an error is answered like no row
GetSession(h, id, dbFault) ==
    /\ boot = "serving"
    /\ LET g == authenticateToken(h)
           rows == {s \in SessionsOf(g.user.id) : s.id = id}
           answer(status, error, row) ==
               last' = [op |-> "get", hdr |-> h, at |-> now, id |-> id, status |-> status,
                        error |-> error, session |-> row]
       IN  IF g.next = 0
           THEN answer(g.status, g.error, NoSession)
           ELSE IF dbFault # "ok" \/ Cardinality(rows) # 1
           THEN answer(404, "Session not found", NoSession)
           ELSE answer(200, "", CHOOSE s \in rows : TRUE)
    /\ UNCHANGED <<bootVars, now, ticks, issued, dbVars, req, calc>>

\* the headers of clients that hold a token, among them a client that
\* rewrote the id in its own token to another principal's
OwnerHeaders ==
    {NoHeader}
      \cup { Header(<<Word("Bearer", NoToken), Word("", t)>>) : t \in issued }
      \cup { Header(<<Word("Bearer", NoToken), Word("", [t EXCEPT !.id = i])>>) :
                t \in issued, i \in {u.id : u \in users} }

RecordBody == Body("jab", Num(30), Num(80))

RecordStep(r) ==
    \/ \E email \in TrainingEmails : SignupInsertUser(r, email, TrainingPassword, "salt1", "ok", "ok")
    \/ SignupInsertStats(r, "ok", Num(0))
    \/ \E h \in OwnerHeaders : PostSessionInsert(r, h, RecordBody, "ok")
    \/ PostSessionReadStats(r, "ok")
    \/ PostSessionWriteStats(r, "ok")
    \/ Release(r)

\* submissions one at a time, reads at any moment
NextRecords ==
    \/ RecordStep(1)
    \/ \E h \in OwnerHeaders, l \in QueryNumbers, o \in QueryNumbers, df \in Faults :
          GetSessions(h, l, o, df)
    \/ \E h \in OwnerHeaders, id \in SessionIds, df \in Faults : GetSession(h, id, df)

SpecRecords == InitServing /\ [][NextRecords]_vars

\* C12: a record is inserted with the id of the validated token as user_id;
\* GET /training/sessions and GET /training/sessions/:id answer with records
\* of the requesting principal only, and the id of another principal's record
\* gets 404; a record, once inserted, stays as it is.
C12_OwnedAppendOnly ==
    /\ [](last.op = "list" =>
            LET t == HeaderToken(last.hdr)
            IN  /\ last.status = 200 =>
                      /\ Validated(t, last.at)
                      /\ \A i \in 1..Len(last.sessions) :
                            /\ last.sessions[i] \in training_sessions
                            /\ last.sessions[i].user_id = t.id
                /\ last.status # 200 => last.sessions = <<>>)
    /\ [](last.op = "get" =>
            LET t == HeaderToken(last.hdr)
            IN  /\ last.status = 200 =>
                      /\ Validated(t, last.at)
                      /\ last.session \in training_sessions
                      /\ last.session.id = last.id
                      /\ last.session.user_id = t.id
                /\ (/\ Validated(t, last.at)
                    /\ \E s \in training_sessions : s.id = last.id /\ s.user_id # t.id)
                   => /\ last.status = 404
                      /\ last.error = "Session not found"
                      /\ last.session = NoSession)
    /\ [][\A s \in training_sessions : s \in training_sessions']_vars
    /\ [][training_sessions' # training_sessions =>
            \E r \in ReqIds :
                /\ req[r].pc = "free"
                /\ req'[r].pc = "read"
                /\ training_sessions' = training_sessions \cup {req'[r].session}
                /\ req'[r].session.user_id = req'[r].user.id
                /\ \E t \in issued : Validated(t, now) /\ t.id = req'[r].session.user_id]_vars

\* a principal with a valid token asked for the record of another principal
\* and was answered 404
C12_Witness ==
    /\ last.op = "get"
    /\ Validated(HeaderToken(last.hdr), last.at)
    /\ last.status = 404
    /\ \E s \in training_sessions :
          s.id = last.id /\ s.user_id # HeaderToken(last.hdr).id

-----------------------------------------------------------------------------
(* Claims about the wire contract of the guard *)

\* the header is 'Bearer <token>': the scheme word Bearer, then one token
IsBearer(h) ==
    /\ h.present
    /\ Len(h.words) = 2
    /\ h.words[1] = Word("Bearer", NoToken)
    /\ h.words[2].scheme = ""

\* C13: a guarded request whose authorization header is not of the shape
\* 'Bearer <token>' does not reach the handler and is answered 401 or 403
\* with an error message, also when the header carries a fresh issued token.
C13_BearerOnly ==
    (last.op = "guard" /\ last.hdr.present /\ ~IsBearer(last.hdr)) =>
        /\ last.res.next = 0
        /\ last.res.status \in {401, 403}
        /\ last.res.error # ""

-----------------------------------------------------------------------------
(* Claims about unexpected failures *)

\* the fallback texts of the catch blocks
GenericMessages == {"Signup failed", "Login failed", "Failed to record session",
                    "Failed to fetch sessions", "Failed to fetch session"}

\* C14: no response carries the text of an underlying error; a response to
\* a request whose hashing or storage call failed is a 500 with one of the
\* generic messages.
C14_NoInternalDetail ==
    /\ \A r \in ReqIds :
          req[r].pc = "done" =>
              /\ req[r].error # InternalDetail
              /\ req[r].status = 500 => req[r].error \in GenericMessages
    /\ last.op = "login" =>
          /\ last.error # InternalDetail
          /\ last.status = 500 => last.error \in GenericMessages

-----------------------------------------------------------------------------
(* routes/users.ts: the statistics of a principal *)

NoStats == [user_id |-> ""]

\* GET /users/stats; .single() gives an error unless exactly one row
\* matches, and an error is answered like no row
GetUserStats(h, dbFault) ==
    /\ boot = "serving"
    /\ LET g == authenticateToken(h)
           rows == StatsOf(g.user.id)
           answer(status, error, row) ==
               last' = [op |-> "userstats", hdr |-> h, at |-> now, dbFault |-> dbFault,
                        status |-> status, error |-> error, stats |-> row]
       IN  IF g.next = 0
           THEN answer(g.status, g.error, NoStats)
           ELSE IF dbFault # "ok" \/ Cardinality(rows) # 1
           THEN answer(404, "User stats not found", NoStats)
           ELSE answer(200, "", CHOOSE s \in rows : TRUE)
    /\ UNCHANGED <<bootVars, now, ticks, issued, dbVars, req, calc>>

StatsStep(r) ==
    \/ \E email \in TrainingEmails : SignupInsertUser(r, email, TrainingPassword, "salt1", "ok", "ok")
    \/ \E df \in Faults : SignupInsertStats(r, df, Num(0))
    \/ \E h \in IssuedHeaders : PostSessionInsert(r, h, RecordBody, "ok")
    \/ PostSessionReadStats(r, "ok")
    \/ PostSessionWriteStats(r, "ok")
    \/ Release(r)

\* one request at a time
NextStats ==
    \/ StatsStep(1)
    \/ \E h \in BearerHeaders, df \in Faults : GetUserStats(h, df)

SpecStats == InitServing /\ [][NextStats]_vars

\* C15: every principal that was handed a token has exactly one user_stats
\* row; so a submission of a signed-up principal finds a row to update, and
\* GET /users/stats, storage working, does not answer such a principal 404.
C15_OneStatsRow ==
    /\ \A u \in users :
          (\E t \in issued : t.id = u.id) => Cardinality(StatsOf(u.id)) = 1
    /\ \A r \in ReqIds :
          (req[r].pc = "done" /\ req[r].op = "post" /\ req[r].status = 201) => req[r].found
    /\ (/\ last.op = "userstats"
        /\ last.dbFault = "ok"
        /\ Validated(HeaderToken(last.hdr), last.at))
       => last.status = 200 /\ last.stats.user_id = HeaderToken(last.hdr).id

-----------------------------------------------------------------------------
(* Claims about the score of a submission *)

RECURSIVE SumScores(_)
SumScores(S) ==
    IF S = {} THEN Num(0)
    ELSE LET s == CHOOSE x \in S : TRUE
         IN  JsAdd(s.score, SumScores(S \ {s}))

RECURSIVE MaxScore(_)
MaxScore(S) ==
    IF S = {} THEN Num(0)
    ELSE LET s == CHOOSE x \in S : TRUE
         IN  JsMax(s.score, MaxScore(S \ {s}))

\* C16: the score a submission folds into average_score and best_score is
\* the score of the record it stored (0 when the request has no score); so,
\* one request at a time, a row that counted all records of its principal
\* holds the mean and the maximum of their scores, and average_score is a
\* number after every update. An absent best_score is read as 0, as the
\* handler reads it.
C16_ScoreFoldedAsStored ==
    /\ \A r \in ReqIds :
          (/\ req[r].pc = "done"
           /\ req[r].op = "post"
           /\ req[r].status = 201
           /\ req[r].found)
          => LET cur == req[r].currentStats
                 stored == req[r].session.score
             IN  /\ req[r].update.average_score =
                       calculateAverage(cur.average_score, stored,
                                        JsAdd(OrZero(cur.total_sessions), Num(1)))
                 /\ OrZero(req[r].update.best_score) = JsMax(OrZero(cur.best_score), stored)
                 /\ req[r].update.average_score \notin {NULL, NaN, UNDEF}
    /\ Quiescent =>
          \A row \in user_stats :
              (Records(row.user_id) # {} /\ CountedRecords(row.user_id) = Records(row.user_id))
              => /\ row.average_score =
                       JsDiv(SumScores(Records(row.user_id)),
                             Num(Cardinality(Records(row.user_id))))
                 /\ OrZero(row.best_score) = MaxScore(Records(row.user_id))

====
